---- MODULE Spec2Model ----
(***************************************************************************)
(* A model of the acquisition / caching / statistics pipeline of the MOEX  *)
(* trading-volume anomaly detector (src/detector.py).                      *)
(*                                                                         *)
(* Python dicts keep insertion order, and the order is observable (the     *)
(* statistics and the anomaly list are built by iterating dicts), so a     *)
(* dict is modelled as a sequence of <<key, value>> pairs.  Strings that   *)
(* the code inspects (identifiers, display names) are sequences of         *)
(* one-character strings; dates in "%Y-%m-%d" form are <<y, m, d>>.         *)
(***************************************************************************)
EXTENDS Integers, Sequences, FiniteSets, TLC

VARIABLES
    cache,            \* the files data/volumes_<date>.json that exist: date -> content
    pc,               \* position inside load_or_fetch_data / fetch_volumes_from_api
    date,             \* argument of the running load_or_fetch_data call
    force,            \* argument of the running load_or_fetch_data call
    upstream,         \* number of rows the exchange holds for `date` during this call
    attempt,          \* loop variable of fetch_volumes_from_api
    start,            \* page offset of the next request
    all_data,         \* rows accumulated by the running attempt
    pages,            \* requests issued by the running attempt: [offset, n] (n = -1: failed)
    failed_attempts,  \* attempts of this call that ended in a RequestException
    cooldowns,        \* time.sleep(RETRY_DELAY) executed by this call
    pauses,           \* time.sleep(0.5) executed by the running attempt
    discarded,        \* the most rows a failed attempt of this call had accumulated
    data,             \* local `data` of load_or_fetch_data (the fetched snapshot)
    result,           \* what the call returned or raised
    cache_before,     \* the cache as it was when the call started
    apc,              \* position inside analyze_date (or in a pure-function harness)
    target_date,      \* argument of analyze_date
    aforce,           \* argument of analyze_date
    base_dates,       \* baseline window of the run
    base_data,        \* snapshots of the baseline dates that loaded
    load_calls,       \* the dates load_or_fetch_data was called for by the run, in order
    loaded_dates,     \* the baseline dates whose load succeeded, in load order
    target_data,      \* snapshot of the target date
    stats,            \* output of calculate_statistics
    warnings,         \* output of calculate_statistics
    anomalies,        \* output of find_anomalies
    exit_code,        \* sys.exit status of the run (NoExit while running / fell off the end)
    reports,          \* the files reports/anomalies_<date>.json that exist: date -> content
    raw_data,         \* input of aggregate_ticker_data
    aggregated        \* output of aggregate_ticker_data

providerVars == <<pc, date, force, upstream, attempt, start, all_data, pages,
                  failed_attempts, cooldowns, pauses, discarded, data, result,
                  cache_before>>
analysisVars == <<apc, target_date, aforce, base_dates, base_data, load_calls, loaded_dates,
                  target_data, stats, warnings, anomalies, exit_code, reports>>
aggregateVars == <<raw_data, aggregated>>
vars == <<cache, providerVars, analysisVars, aggregateVars>>

(***************************************************************************)
(* Settings                                                                *)
(***************************************************************************)
MIN_DEVIATION_PERCENT == 300
MIN_AVG_VALUE == 10000000
MAX_RETRIES == 5
RETRY_DELAY == 60
PAGE_SIZE == 100
BASE_DAYS == 5
ANOMALY_THRESHOLD_SIGMA == 3

EXCLUDED_TICKER_PREFIXES == << <<"R", "U", "0", "0", "0">> >>
EXCLUDED_SHORTNAME_KEYWORDS == << <<"E", "T", "F">> >>

\* Python's None in a numeric field (the fields themselves are never negative).
None == -1

(***************************************************************************)
(* Strings                                                                 *)
(***************************************************************************)
\* str.startswith(prefix)
StartsWith(s, p) == Len(s) >= Len(p) /\ SubSeq(s, 1, Len(p)) = p

\* str.startswith(tuple of prefixes)
StartsWithAny(s, prefixes) == \E i \in 1..Len(prefixes) : StartsWith(s, prefixes[i])

\* str.upper(), on the letters the model's names use
UpperChar(c) ==
    CASE c = "e" -> "E"
      [] c = "t" -> "T"
      [] c = "f" -> "F"
      [] c = "b" -> "B"
      [] c = "x" -> "X"
      [] OTHER -> c

Upper(s) == [i \in 1..Len(s) |-> UpperChar(s[i])]

\* keyword in s
Contains(s, keyword) ==
    \E i \in 0..(Len(s) - Len(keyword)) : SubSeq(s, i + 1, i + Len(keyword)) = keyword

(***************************************************************************)
(* Dicts: sequences of <<key, value>> pairs in insertion order             *)
(***************************************************************************)
Keys(d) == {d[i][1] : i \in 1..Len(d)}

KeyList(d) == [i \in 1..Len(d) |-> d[i][1]]

Has(d, k) == \E i \in 1..Len(d) : d[i][1] = k

\* d[k], the first entry with that key
Get(d, k) == d[CHOOSE i \in 1..Len(d) : d[i][1] = k /\ \A j \in 1..(i - 1) : d[j][1] # k][2]

\* d[k] = v: in place when the key exists, appended otherwise
Put(d, k, v) ==
    IF Has(d, k)
    THEN [i \in 1..Len(d) |-> IF d[i][1] = k THEN <<k, v>> ELSE d[i]]
    ELSE Append(d, <<k, v>>)

(***************************************************************************)
(* Dates.  A datetime is its proleptic Gregorian ordinal (date.toordinal),  *)
(* a date string is <<year, month, day>>.                                  *)
(***************************************************************************)
IsLeap(y) == y % 4 = 0 /\ (y % 100 # 0 \/ y % 400 = 0)

DaysInMonth(y, m) ==
    CASE m \in {4, 6, 9, 11} -> 30
      [] m = 2 -> IF IsLeap(y) THEN 29 ELSE 28
      [] OTHER -> 31

DaysBeforeMonth(y, m) ==
    LET plain == <<0, 31, 59, 90, 120, 151, 181, 212, 243, 273, 304, 334>>
    IN  plain[m] + (IF m > 2 /\ IsLeap(y) THEN 1 ELSE 0)

DaysBeforeYear(y) ==
    LET p == y - 1 IN p * 365 + (p \div 4) - (p \div 100) + (p \div 400)

\* Whether datetime.strptime(s, "%Y-%m-%d") accepts the string
ValidDateString(s) ==
    /\ s[1] \in 1..9999
    /\ s[2] \in 1..12
    /\ s[3] \in 1..DaysInMonth(s[1], s[2])

\* datetime.strptime(s, "%Y-%m-%d"), for a string it accepts
strptime(s) == DaysBeforeYear(s[1]) + DaysBeforeMonth(s[1], s[2]) + s[3]

\* datetime.strftime("%Y-%m-%d")
strftime(ordinal) ==
    LET n0 == ordinal - 1
        n400 == n0 \div 146097
        r400 == n0 % 146097
        n100 == r400 \div 36524
        r100 == r400 % 36524
        n4 == r100 \div 1461
        r4 == r100 % 1461
        n1 == r4 \div 365
        n == r4 % 365
        year == n400 * 400 + 1 + n100 * 100 + n4 * 4 + n1
    IN  IF n1 = 4 \/ n100 = 4
        THEN <<year - 1, 12, 31>>
        ELSE LET guess == (n + 50) \div 32
                 month == IF DaysBeforeMonth(year, guess) > n THEN guess - 1 ELSE guess
             IN  <<year, month, n - DaysBeforeMonth(year, month) + 1>>

\* datetime.weekday(): Monday is 0
weekday(ordinal) == (ordinal + 6) % 7

\* TradingDatesLoop skipping Sundays only
RECURSIVE TradingDatesLoopWithSaturday(_, _, _)
TradingDatesLoopWithSaturday(dates, current, days) ==
    IF Len(dates) < days
    THEN TradingDatesLoopWithSaturday(IF weekday(current) < 6
                                      THEN Append(dates, strftime(current))
                                      ELSE dates,
                                      current - 1, days)
    ELSE dates

RECURSIVE TradingDatesLoop(_, _, _)
TradingDatesLoop(dates, current, days) ==
    IF Len(dates) < days
    THEN TradingDatesLoop(IF weekday(current) < 5
                          THEN Append(dates, strftime(current))
                          ELSE dates,
                          current - 1, days)
    ELSE dates

Reversed(s) == [i \in 1..Len(s) |-> s[Len(s) + 1 - i]]

get_trading_dates(end_date, days) == Reversed(TradingDatesLoop(<<>>, end_date, days))

(***************************************************************************)
(* The exchange.  For a date it holds a list of rows; row i is             *)
(* [SECID, SHORTNAME, VOLUME, VALUE, NUMTRADES].  A request for offset s   *)
(* answers with the rows s+1 .. s+PAGE_SIZE that exist.  The fetcher's     *)
(* accumulator holds the rows by their position in that list.              *)
(***************************************************************************)
SBER == <<"S", "B", "E", "R">>
RU000A == <<"R", "U", "0", "0", "0", "A">>
RU00 == <<"R", "U", "0", "0">>
NameSb == <<"S", "b">>
NameSbx == <<"S", "b", "x">>
NameEtf == <<"x", "E", "t", "f">>
NameEt == <<"E", "T">>

UpstreamRow(d, i) ==
    LET secid == CASE i % 3 = 1 -> SBER
                   [] i % 3 = 2 -> RU000A
                   [] OTHER -> RU00
        shortname == CASE i % 3 = 1 -> (IF i = 1 THEN NameSb ELSE NameSbx)
                       [] i % 3 = 2 -> NameEt
                       [] OTHER -> NameEtf
    IN  << secid,
           shortname,
           IF i % 4 = 0 THEN None ELSE 1,
           IF i % 5 = 0 THEN None ELSE (strptime(d) + i) % 3,
           IF i % 2 = 0 THEN None ELSE 2 >>

ServerPage(n, s) ==
    LET last == IF s + PAGE_SIZE < n THEN s + PAGE_SIZE ELSE n
    IN  [k \in 1..(IF last > s THEN last - s ELSE 0) |-> s + k]

RowsOf(d, indices) == [k \in 1..Len(indices) |-> UpstreamRow(d, indices[k])]

(***************************************************************************)
(* aggregate_ticker_data                                                   *)
(***************************************************************************)
\* x or 0
OrZero(x) == IF x = None \/ x = 0 THEN 0 ELSE x

\* AggregateRow with the display name taken from every row, not only the first
AggregateRowLastName(agg, row) ==
    LET secid == row[1] IN
    IF StartsWithAny(secid, EXCLUDED_TICKER_PREFIXES)
    THEN agg
    ELSE LET old == IF Has(agg, secid)
                    THEN Get(agg, secid)
                    ELSE [shortname |-> row[2], volume |-> 0, value |-> 0, numtrades |-> 0]
         IN  Put(agg, secid, [shortname |-> row[2],
                              volume |-> old.volume + OrZero(row[3]),
                              value |-> old.value + OrZero(row[4]),
                              numtrades |-> old.numtrades + OrZero(row[5])])

\* One pass of the loop over raw_data
AggregateRow(agg, row) ==
    LET secid == row[1] IN
    IF StartsWithAny(secid, EXCLUDED_TICKER_PREFIXES)
    THEN agg
    ELSE LET old == IF Has(agg, secid)
                    THEN Get(agg, secid)
                    ELSE [shortname |-> row[2], volume |-> 0, value |-> 0, numtrades |-> 0]
         IN  Put(agg, secid, [shortname |-> old.shortname,
                              volume |-> old.volume + OrZero(row[3]),
                              value |-> old.value + OrZero(row[4]),
                              numtrades |-> old.numtrades + OrZero(row[5])])

\* The loop over rows[lo..hi], entered with the dict agg.  The rows are taken in
\* order; the range is halved so that the evaluation depth stays logarithmic.
RECURSIVE AggregateRange(_, _, _, _)
AggregateRange(agg, rows, lo, hi) ==
    IF lo > hi THEN agg
    ELSE IF lo = hi THEN AggregateRow(agg, rows[lo])
    ELSE LET mid == (lo + hi) \div 2
             left == AggregateRange(agg, rows, lo, mid)
         IN  IF Len(left) >= 0 THEN AggregateRange(left, rows, mid + 1, hi) ELSE left

aggregate_ticker_data(rows) == AggregateRange(<<>>, rows, 1, Len(rows))

(***************************************************************************)
(* The cache directory and the inputs of the provider                      *)
(***************************************************************************)
FirstTarget == <<2024, 2, 26>>
TargetSpan == 7
MaxFullPages == 1

TargetOrdinals == strptime(FirstTarget)..(strptime(FirstTarget) + TargetSpan - 1)
AllDates == {strftime(o) : o \in (strptime(FirstTarget) - 7)..(strptime(FirstTarget) + TargetSpan - 1)}
ProviderDates == {FirstTarget, strftime(strptime(FirstTarget) + 3)}
RowCounts == {0, 1} \cup {p * PAGE_SIZE + r : p \in 1..MaxFullPages, r \in {0, 1}}

\* A directory without files
NoFiles == <<>>
\* The file exists and holds a proper prefix of the JSON text (possibly nothing)
Truncated == [kind |-> "truncated"]
\* json.dump({'date': date, 'tickers': data})
Document(d, tickers) == [kind |-> "document", date |-> d, tickers |-> tickers]

NoResult == [kind |-> "none"]
Returned(v) == [kind |-> "returned", value |-> v]
Raised(e) == [kind |-> "raised", error |-> e]

\* cache_file.exists()
Exists(c, d) == d \in DOMAIN c

\* The directory after the file of date d has been (over)written with `content`
WriteFile(c, d, content) == [x \in DOMAIN c \cup {d} |-> IF x = d THEN content ELSE c[x]]

\* What a look at the file of date d finds
EntryKind(c, d) == IF Exists(c, d) THEN c[d].kind ELSE "absent"

\* `not force and cache_file.exists()`
UseCacheInverted(c, d, f) == f /\ Exists(c, d)
UseCache(c, d, f) == ~f /\ Exists(c, d)

\* json.load(f)['tickers'], or the JSONDecodeError of a file that is not a JSON text
ReadCache(c, d) ==
    IF c[d].kind = "document" THEN Returned(c[d].tickers) ELSE Raised("JSONDecodeError")

ProviderLocalsReset ==
    /\ attempt' = 0
    /\ start' = 0
    /\ all_data' = <<>>
    /\ pages' = <<>>
    /\ failed_attempts' = 0
    /\ cooldowns' = 0
    /\ pauses' = 0
    /\ discarded' = 0
    /\ data' = <<>>

(***************************************************************************)
(* load_or_fetch_data and fetch_volumes_from_api, step by step             *)
(***************************************************************************)
\* load_or_fetch_data(d, f) on the cached path: the whole call
LoadFromCache(d, f) ==
    /\ pc = "idle"
    /\ UseCache(cache, d, f)
    /\ date' = d
    /\ force' = f
    /\ cache_before' = cache
    /\ result' = ReadCache(cache, d)
    /\ pc' = IF ReadCache(cache, d).kind = "returned" THEN "returned" ELSE "raised"
    /\ ProviderLocalsReset
    /\ UNCHANGED <<cache, upstream, analysisVars, aggregateVars>>

\* load_or_fetch_data(d, f) reaches fetch_volumes_from_api; the exchange holds n rows
BeginFetch(d, f, n) ==
    /\ pc = "idle"
    /\ ~UseCache(cache, d, f)
    /\ date' = d
    /\ force' = f
    /\ upstream' = n
    /\ cache_before' = cache
    /\ result' = NoResult
    /\ pc' = "request"
    /\ attempt' = 1
    /\ start' = 0
    /\ all_data' = <<>>
    /\ pages' = <<>>
    /\ failed_attempts' = 0
    /\ cooldowns' = 0
    /\ pauses' = 0
    /\ discarded' = 0
    /\ data' = <<>>
    /\ UNCHANGED <<cache, analysisVars, aggregateVars>>

\* RequestFails with the cache file opened for writing before the fetch is known
\* to have succeeded, so that exhaustion leaves an empty entry behind
RequestFailsLeavingEntry ==
    /\ pc = "request"
    /\ pages' = Append(pages, [offset |-> start, n |-> -1])
    /\ failed_attempts' = failed_attempts + 1
    /\ discarded' = (IF Len(all_data) > discarded THEN Len(all_data) ELSE discarded)
    /\ IF attempt < MAX_RETRIES
       THEN pc' = "cooldown" /\ result' = result /\ cache' = cache
       ELSE /\ pc' = "raised"
            /\ result' = Raised("FetchExhausted")
            /\ cache' = WriteFile(cache, date, Document(date, <<>>))
    /\ UNCHANGED <<date, force, upstream, attempt, start, all_data, cooldowns,
                   pauses, data, cache_before, analysisVars, aggregateVars>>

\* RequestFails with `attempt <= MAX_RETRIES`: one attempt too many
RequestFailsOffByOne ==
    /\ pc = "request"
    /\ pages' = Append(pages, [offset |-> start, n |-> -1])
    /\ failed_attempts' = failed_attempts + 1
    /\ discarded' = (IF Len(all_data) > discarded THEN Len(all_data) ELSE discarded)
    /\ IF attempt <= MAX_RETRIES
       THEN pc' = "cooldown" /\ result' = result
       ELSE pc' = "raised" /\ result' = Raised("FetchExhausted")
    /\ UNCHANGED <<cache, date, force, upstream, attempt, start, all_data, cooldowns,
                   pauses, data, cache_before, analysisVars, aggregateVars>>

\* RequestFails with the retry loop as `while True`: the attempt starts again at
\* once and is not counted
RequestFailsRetryingForever ==
    /\ pc = "request"
    /\ Len(all_data) > 0
    /\ pages' = <<>>
    /\ all_data' = <<>>
    /\ start' = 0
    /\ pauses' = 0
    /\ UNCHANGED <<cache, date, force, upstream, attempt, failed_attempts, cooldowns,
                   discarded, data, result, pc, cache_before, analysisVars, aggregateVars>>

\* requests.get / raise_for_status / json raise a RequestException
RequestFails ==
    /\ pc = "request"
    /\ pages' = Append(pages, [offset |-> start, n |-> -1])
    /\ failed_attempts' = failed_attempts + 1
    /\ discarded' = (IF Len(all_data) > discarded THEN Len(all_data) ELSE discarded)
    /\ IF attempt < MAX_RETRIES
       THEN pc' = "cooldown" /\ result' = result
       ELSE pc' = "raised" /\ result' = Raised("FetchExhausted")
    /\ UNCHANGED <<cache, date, force, upstream, attempt, start, all_data, cooldowns,
                   pauses, data, cache_before, analysisVars, aggregateVars>>

\* The page loop ending on any page shorter than the page size
LastPageWhenShort(rows) == Len(rows) < PAGE_SIZE

\* Whether the page loop ends on this page: `if not rows: break`
LastPage(rows) == rows = <<>>

\* a page arrives
RequestSucceeds ==
    /\ pc = "request"
    /\ LET rows == ServerPage(upstream, start) IN
       /\ pages' = Append(pages, [offset |-> start, n |-> Len(rows)])
       /\ IF LastPage(rows)
          THEN /\ data' = aggregate_ticker_data(RowsOf(date, all_data))
               /\ pc' = "open"
               /\ UNCHANGED <<all_data, start, pauses>>
          ELSE /\ all_data' = all_data \o rows
               /\ start' = start + PAGE_SIZE
               /\ pauses' = pauses + (IF Len(rows) = PAGE_SIZE THEN 1 ELSE 0)
               /\ UNCHANGED <<data, pc>>
    /\ UNCHANGED <<cache, date, force, upstream, attempt, failed_attempts, cooldowns,
                   discarded, result, cache_before, analysisVars, aggregateVars>>

\* Cooldown with `all_data = []` and `start = 0` set once, before the retry loop
CooldownKeepingRows ==
    /\ pc = "cooldown"
    /\ cooldowns' = cooldowns + 1
    /\ attempt' = attempt + 1
    /\ pages' = <<>>
    /\ pauses' = 0
    /\ pc' = "request"
    /\ UNCHANGED <<cache, date, force, upstream, start, all_data, failed_attempts,
                   discarded, data, result, cache_before, analysisVars, aggregateVars>>

\* time.sleep(RETRY_DELAY), then the next attempt starts
Cooldown ==
    /\ pc = "cooldown"
    /\ cooldowns' = cooldowns + 1
    /\ attempt' = attempt + 1
    /\ all_data' = <<>>
    /\ start' = 0
    /\ pages' = <<>>
    /\ pauses' = 0
    /\ pc' = "request"
    /\ UNCHANGED <<cache, date, force, upstream, failed_attempts, discarded, data,
                   result, cache_before, analysisVars, aggregateVars>>

\* open(cache_file, 'w'): the file is created, or emptied when it exists
OpenCacheFile ==
    /\ pc = "open"
    /\ cache' = WriteFile(cache, date, Truncated)
    /\ pc' = "dump"
    /\ UNCHANGED <<date, force, upstream, attempt, start, all_data, pages, failed_attempts,
                   cooldowns, pauses, discarded, data, result, cache_before, analysisVars,
                   aggregateVars>>

\* json.dump completes, the file is closed, the call returns
DumpCacheFile ==
    /\ pc = "dump"
    /\ cache' = WriteFile(cache, date, Document(date, data))
    /\ result' = Returned(data)
    /\ pc' = "returned"
    /\ UNCHANGED <<date, force, upstream, attempt, start, all_data, pages, failed_attempts,
                   cooldowns, pauses, discarded, data, cache_before, analysisVars,
                   aggregateVars>>

\* The process is interrupted (signal, power loss) while the call runs; what is
\* on disk stays, the next process starts from there
Interrupt ==
    /\ pc \in {"request", "cooldown", "open", "dump"}
    /\ pc' = "idle"
    /\ result' = NoResult
    /\ ProviderLocalsReset
    /\ UNCHANGED <<cache, date, force, upstream, cache_before, analysisVars, aggregateVars>>

\* The caller takes the result
Finish ==
    /\ pc \in {"returned", "raised"}
    /\ pc' = "idle"
    /\ result' = NoResult
    /\ ProviderLocalsReset
    /\ UNCHANGED <<cache, date, force, upstream, cache_before, analysisVars, aggregateVars>>

NoSnapshot == <<>>

InitAnalysisIdle ==
    /\ apc = "idle"
    /\ target_date = FirstTarget
    /\ aforce = FALSE
    /\ base_dates = <<>>
    /\ base_data = <<>>
    /\ load_calls = <<>>
    /\ loaded_dates = <<>>
    /\ target_data = NoSnapshot
    /\ stats = <<>>
    /\ warnings = <<>>
    /\ anomalies = <<>>
    /\ exit_code = None
    /\ reports = NoFiles

InitProviderIdle ==
    /\ pc = "idle"
    /\ date = FirstTarget
    /\ force = FALSE
    /\ upstream = 0
    /\ attempt = 0
    /\ start = 0
    /\ all_data = <<>>
    /\ pages = <<>>
    /\ failed_attempts = 0
    /\ cooldowns = 0
    /\ pauses = 0
    /\ discarded = 0
    /\ data = <<>>
    /\ result = NoResult
    /\ cache_before = NoFiles

InitAggregateIdle ==
    /\ raw_data = <<>>
    /\ aggregated = <<>>

\* A fresh checkout: the data directory is empty
Init ==
    /\ cache = NoFiles
    /\ InitProviderIdle
    /\ InitAnalysisIdle
    /\ InitAggregateIdle

Next ==
    \/ \E d \in ProviderDates, f \in BOOLEAN : LoadFromCache(d, f)
    \/ \E d \in ProviderDates, f \in BOOLEAN, n \in RowCounts : BeginFetch(d, f, n)
    \/ RequestFails
    \/ RequestSucceeds
    \/ Cooldown
    \/ OpenCacheFile
    \/ DumpCacheFile
    \/ Interrupt
    \/ Finish

Spec == Init /\ [][Next]_vars

\* The calls that run without the process being interrupted.  A step of a
\* running call is always taken in the end: a request is answered or fails
\* (requests.get has timeout=30), a sleep ends.
NextRunning ==
    \/ \E d \in ProviderDates, f \in BOOLEAN : LoadFromCache(d, f)
    \/ \E d \in ProviderDates, f \in BOOLEAN, n \in RowCounts : BeginFetch(d, f, n)
    \/ RequestFails
    \/ RequestSucceeds
    \/ Cooldown
    \/ OpenCacheFile
    \/ DumpCacheFile
    \/ Finish

SpecRunning == Init /\ [][NextRunning]_vars /\ WF_vars(NextRunning)

(***************************************************************************)
(* calculate_statistics.  Numbers are exact: a rational is <<num, den>>     *)
(* with den > 0; a standard deviation or z-score that is a square root is  *)
(* kept as its sign and its square.  The values of one instrument are      *)
(* divided by their greatest common divisor g before squaring (the         *)
(* variance is g * g times the variance of the quotients), which keeps the *)
(* arithmetic inside 32-bit integers.                                      *)
(***************************************************************************)
RECURSIVE GCD(_, _)
GCD(a, b) == IF b = 0 THEN a ELSE GCD(b, a % b)

RECURSIVE SeqGCD(_, _)
SeqGCD(xs, i) == IF i = 0 THEN 0 ELSE GCD(xs[i], SeqGCD(xs, i - 1))

RECURSIVE SeqSum(_, _)
SeqSum(xs, i) == IF i = 0 THEN 0 ELSE xs[i] + SeqSum(xs, i - 1)

Sign(x) == IF x > 0 THEN 1 ELSE IF x < 0 THEN -1 ELSE 0

\* [day_data[ticker]['value'] for day_data in base_data if ticker in day_data]
RECURSIVE BaselineValues(_, _, _)
BaselineValues(days, ticker, i) ==
    IF i = 0 THEN <<>>
    ELSE LET before == BaselineValues(days, ticker, i - 1)
         IN  IF Has(days[i], ticker)
             THEN Append(before, Get(days[i], ticker).value)
             ELSE before

\* any(keyword in shortname.upper() for keyword in EXCLUDED_SHORTNAME_KEYWORDS)
HasExcludedKeyword(shortname) ==
    \E i \in 1..Len(EXCLUDED_SHORTNAME_KEYWORDS) :
        Contains(Upper(shortname), EXCLUDED_SHORTNAME_KEYWORDS[i])

Rational(num, den) == [kind |-> "rational", num |-> num, den |-> den]
\* sign * scale * sqrt(num / den)
Root(sign, scale, num, den) ==
    [kind |-> "root", sign |-> sign, scale |-> scale, num |-> num, den |-> den]

\* The statistics of one instrument from its baseline values and its target record
TickerStatistics(values, target_info) ==
    LET n == Len(values)
        current_value == target_info.value
        total == SeqSum(values, n)
        common == GCD(SeqGCD(values, n), current_value)
        g == IF common = 0 THEN 1 ELSE common
        ys == [i \in 1..n |-> values[i] \div g]
        yc == current_value \div g
        ysum == total \div g
        squares == SeqSum([i \in 1..n |-> ys[i] * ys[i]], n)
        \* n * (n - 1) * variance / (g * g)
        spread == n * squares - ysum * ysum
        diff == n * yc - ysum
        std_value == IF n >= 2
                     THEN Root(Sign(spread), g, spread, n * (n - 1))
                     ELSE IF total > 0 THEN Rational(total, 100) ELSE Rational(1, 1)
        std_positive == IF n >= 2 THEN spread > 0 ELSE TRUE
        z_score == IF ~std_positive THEN Rational(0, 1)
                   ELSE IF n >= 2 THEN Root(Sign(diff), 1, diff * diff * (n - 1), n * spread)
                   ELSE IF total > 0 THEN Rational(100 * (yc - ysum), ysum)
                   ELSE Rational(current_value, 1)
        deviation_pct == IF total > 0 THEN Rational(100 * diff, ysum) ELSE Rational(0, 1)
    IN  [shortname |-> target_info.shortname,
         current_value |-> current_value,
         mean_value |-> Rational(total, n),
         std_value |-> std_value,
         z_score |-> z_score,
         deviation_pct |-> deviation_pct,
         base_days_count |-> n]

\* f"Тикер {ticker}: только {len(values)} день(ей) данных вместо 5"
Warning(ticker, days) == [ticker |-> ticker, days |-> days, instead_of |-> 5]

\* StatisticsRow with the shortfall warning issued before the empty-baseline skip
StatisticsRowWarningFirst(acc, base, ticker, target_info) ==
    IF StartsWithAny(ticker, EXCLUDED_TICKER_PREFIXES) THEN acc
    ELSE IF HasExcludedKeyword(target_info.shortname) THEN acc
    ELSE LET values == BaselineValues(base, ticker, Len(base)) IN
         IF values = <<>>
         THEN [stats |-> acc.stats,
               warnings |-> Append(acc.warnings, Warning(ticker, Len(values)))]
         ELSE [stats |-> Put(acc.stats, ticker, TickerStatistics(values, target_info)),
               warnings |-> IF Len(values) >= 2
                            THEN acc.warnings
                            ELSE Append(acc.warnings, Warning(ticker, Len(values)))]

\* StatisticsRow without the warning of the single-value branch
StatisticsRowNoWarning(acc, base, ticker, target_info) ==
    IF StartsWithAny(ticker, EXCLUDED_TICKER_PREFIXES) THEN acc
    ELSE IF HasExcludedKeyword(target_info.shortname) THEN acc
    ELSE LET values == BaselineValues(base, ticker, Len(base)) IN
         IF values = <<>> THEN acc
         ELSE [stats |-> Put(acc.stats, ticker, TickerStatistics(values, target_info)),
               warnings |-> acc.warnings]

\* One pass of the loop over target_data.items()
StatisticsRow(acc, base, ticker, target_info) ==
    IF StartsWithAny(ticker, EXCLUDED_TICKER_PREFIXES) THEN acc
    ELSE IF HasExcludedKeyword(target_info.shortname) THEN acc
    ELSE LET values == BaselineValues(base, ticker, Len(base)) IN
         IF values = <<>> THEN acc
         ELSE [stats |-> Put(acc.stats, ticker, TickerStatistics(values, target_info)),
               warnings |-> IF Len(values) >= 2
                            THEN acc.warnings
                            ELSE Append(acc.warnings, Warning(ticker, Len(values)))]

RECURSIVE StatisticsUpTo(_, _, _)
StatisticsUpTo(base, target, i) ==
    IF i = 0 THEN [stats |-> <<>>, warnings |-> <<>>]
    ELSE StatisticsRow(StatisticsUpTo(base, target, i - 1), base, target[i][1], target[i][2])

\* returns [stats, warnings]
calculate_statistics(base, target) == StatisticsUpTo(base, target, Len(target))

(***************************************************************************)
(* find_anomalies                                                          *)
(***************************************************************************)
\* The sign and the square of a z-score or deviation
SignOf(x) == IF x.kind = "rational" THEN Sign(x.num) ELSE x.sign
SquareNum(x) == IF x.kind = "rational" THEN x.num * x.num ELSE x.scale * x.scale * x.num
SquareDen(x) == IF x.kind = "rational" THEN x.den * x.den ELSE x.den

\* x > t for an integer t >= 0
GreaterThanInt(x, t) ==
    IF x.kind = "rational" THEN x.num > t * x.den
    ELSE SignOf(x) > 0 /\ SquareNum(x) > t * t * SquareDen(x)

\* x >= t for a rational x and an integer t
AtLeastInt(x, t) == x.num >= t * x.den

\* a > b
Greater(a, b) ==
    IF SignOf(a) # SignOf(b) THEN SignOf(a) > SignOf(b)
    ELSE IF SignOf(a) > 0 THEN SquareNum(a) * SquareDen(b) > SquareNum(b) * SquareDen(a)
    ELSE IF SignOf(a) < 0 THEN SquareNum(a) * SquareDen(b) < SquareNum(b) * SquareDen(a)
    ELSE FALSE

\* IsAnomaly without the z-score test
IsAnomalyWithoutZScore(info, threshold) ==
    /\ GreaterThanInt(info.deviation_pct, MIN_DEVIATION_PERCENT)
    /\ AtLeastInt(info.mean_value, MIN_AVG_VALUE)

\* IsAnomaly without the mean-value test
IsAnomalyWithoutMean(info, threshold) ==
    /\ GreaterThanInt(info.z_score, threshold)
    /\ GreaterThanInt(info.deviation_pct, MIN_DEVIATION_PERCENT)

\* The three tests of the list comprehension
IsAnomaly(info, threshold) ==
    /\ GreaterThanInt(info.z_score, threshold)
    /\ GreaterThanInt(info.deviation_pct, MIN_DEVIATION_PERCENT)
    /\ AtLeastInt(info.mean_value, MIN_AVG_VALUE)

RECURSIVE Selected(_, _, _)
Selected(st, threshold, i) ==
    IF i = 0 THEN <<>>
    ELSE IF IsAnomaly(st[i][2], threshold)
         THEN Append(Selected(st, threshold, i - 1), st[i])
         ELSE Selected(st, threshold, i - 1)

\* list.sort(key=z_score, reverse=True) is stable: an entry goes behind every
\* entry already placed whose z-score is not smaller than its own
InsertByZScore(sorted, entry) ==
    LET ahead == {i \in 1..Len(sorted) :
                     \A j \in 1..i : ~Greater(entry[2].z_score, sorted[j][2].z_score)}
        k == Cardinality(ahead)
    IN  SubSeq(sorted, 1, k) \o <<entry>> \o SubSeq(sorted, k + 1, Len(sorted))

RECURSIVE SortByZScore(_, _)
SortByZScore(entries, i) ==
    IF i = 0 THEN <<>> ELSE InsertByZScore(SortByZScore(entries, i - 1), entries[i])

find_anomalies(st, threshold) ==
    LET chosen == Selected(st, threshold, Len(st)) IN SortByZScore(chosen, Len(chosen))

(***************************************************************************)
(* generate_json_report / save_reports.  The report keeps the fields that  *)
(* are copied as they are; the two fields rounded for display (z_score,    *)
(* deviation_percent) are not part of the model's report.                  *)
(***************************************************************************)
generate_json_report(found, target, base_period, total_tickers, warns) ==
    [metadata |-> [analysis_date |-> target,
                   base_period_start |-> base_period[1],
                   base_period_end |-> base_period[Len(base_period)],
                   base_period_days |-> Len(base_period),
                   threshold_sigma |-> ANOMALY_THRESHOLD_SIGMA,
                   total_tickers |-> total_tickers,
                   anomalies_found |-> Len(found)],
     anomalies |-> [rank \in 1..Len(found) |->
                       [rank |-> rank,
                        ticker |-> found[rank][1],
                        shortname |-> found[rank][2].shortname,
                        current_value |-> found[rank][2].current_value,
                        avg_value |-> found[rank][2].mean_value,
                        std_value |-> found[rank][2].std_value,
                        base_days_count |-> found[rank][2].base_days_count]],
     warnings |-> warns]

(***************************************************************************)
(* analyze_date (specification SpecAnalyze).  A call of                     *)
(* load_or_fetch_data is taken as one step here: Provide gives what the    *)
(* call returns or raises and the cache it leaves, from the cache it       *)
(* finds and from what the exchange does (it answers with n rows, or all   *)
(* MAX_RETRIES attempts fail).                                             *)
(***************************************************************************)
FetchFails == [ok |-> FALSE, n |-> 0]
FetchGives(n) == [ok |-> TRUE, n |-> n]

Provide(c, d, f, exchange) ==
    IF UseCache(c, d, f)
    THEN [result |-> ReadCache(c, d), cache |-> c]
    ELSE IF ~exchange.ok
    THEN [result |-> Raised("FetchExhausted"), cache |-> c]
    ELSE LET fetched == aggregate_ticker_data(RowsOf(d, [k \in 1..exchange.n |-> k]))
         IN  [result |-> Returned(fetched), cache |-> WriteFile(c, d, Document(d, fetched))]

AnalysisRowCounts == {0, 4}
ExchangeBehaviours == {FetchFails} \cup {FetchGives(n) : n \in AnalysisRowCounts}

\* What the command line may pass as the target date; the last one is no date
TargetInputs == {strftime(o) : o \in TargetOrdinals} \cup {<<2024, 2, 30>>}

\* Data directories left by earlier runs
CachedSnapshot(d) ==
    Document(d, aggregate_ticker_data(RowsOf(d, [k \in 1..(2 * (strptime(d) % 2)) |-> k])))
InitialCaches ==
    {[d \in K |-> CachedSnapshot(d)] :
        K \in {{}, AllDates, {d \in AllDates : strptime(d) % 2 = 0},
               {d \in AllDates : strptime(d) % 3 = 0}}}
    \cup {[d \in {e \in AllDates : strptime(e) % 3 = 1} |-> Truncated]}

InitAnalyze ==
    /\ cache \in InitialCaches
    /\ InitProviderIdle
    /\ InitAnalysisIdle
    /\ InitAggregateIdle

\* analyze_date(t, f) up to the baseline loop
StartAnalysis(t, f) ==
    /\ apc = "idle"
    /\ target_date' = t
    /\ aforce' = f
    /\ IF ValidDateString(t)
       THEN /\ base_dates' = get_trading_dates(strptime(t) - 1, BASE_DAYS)
            /\ apc' = "baseline"
            /\ exit_code' = exit_code
       ELSE /\ base_dates' = base_dates
            /\ apc' = "bad_date"
            /\ exit_code' = 1
    /\ UNCHANGED <<cache, providerVars, aggregateVars, base_data, load_calls, loaded_dates,
                   target_data, stats, warnings, anomalies, reports>>

\* One pass of `for date in base_dates`
LoadBaseline(exchange) ==
    /\ apc = "baseline"
    /\ Len(load_calls) < Len(base_dates)
    /\ LET d == base_dates[Len(load_calls) + 1]
           got == Provide(cache, d, aforce, exchange)
       IN  /\ load_calls' = Append(load_calls, d)
           /\ cache' = got.cache
           /\ IF got.result.kind = "returned"
              THEN /\ base_data' = Append(base_data, got.result.value)
                   /\ loaded_dates' = Append(loaded_dates, d)
              ELSE UNCHANGED <<base_data, loaded_dates>>
    /\ UNCHANGED <<providerVars, aggregateVars, apc, target_date, aforce, base_dates,
                   target_data, stats, warnings, anomalies, exit_code, reports>>

\* The run giving up as soon as one baseline date is missing
NoBaselineWhenIncomplete(loaded) == Len(loaded) < BASE_DAYS

\* `if not base_data`
NoBaseline(loaded) == loaded = <<>>

\* The end of the baseline loop
CheckBaseline ==
    /\ apc = "baseline"
    /\ Len(load_calls) = Len(base_dates)
    /\ IF NoBaseline(base_data)
       THEN apc' = "no_baseline" /\ exit_code' = 1
       ELSE apc' = "target" /\ exit_code' = exit_code
    /\ UNCHANGED <<cache, providerVars, aggregateVars, target_date, aforce, base_dates,
                   base_data, load_calls, loaded_dates, target_data, stats, warnings,
                   anomalies, reports>>

\* The run without its guard against an empty target snapshot
NoTargetDataIgnored(snapshot) == FALSE

\* `if not target_data`
NoTargetData(snapshot) == snapshot = <<>>

\* The rest of analyze_date: the target load, the statistics, the reports
LoadTarget(exchange) ==
    /\ apc = "target"
    /\ LET got == Provide(cache, target_date, aforce, exchange) IN
       /\ load_calls' = Append(load_calls, target_date)
       /\ cache' = got.cache
       /\ IF got.result.kind # "returned"
          THEN /\ apc' = "target_failed"
               /\ exit_code' = 1
               /\ UNCHANGED <<target_data, stats, warnings, anomalies, reports>>
          ELSE /\ target_data' = got.result.value
               /\ IF NoTargetData(got.result.value)
                  THEN /\ apc' = "no_target_data"
                       /\ exit_code' = 0
                       /\ UNCHANGED <<stats, warnings, anomalies, reports>>
                  ELSE LET computed == calculate_statistics(base_data, got.result.value)
                           found == find_anomalies(computed.stats, ANOMALY_THRESHOLD_SIGMA)
                       IN  /\ stats' = computed.stats
                           /\ warnings' = computed.warnings
                           /\ anomalies' = found
                           /\ reports' = WriteFile(reports, target_date,
                                             generate_json_report(found, target_date,
                                                 base_dates, Len(got.result.value),
                                                 computed.warnings))
                           /\ apc' = "done"
                           /\ exit_code' = 0
    /\ UNCHANGED <<providerVars, aggregateVars, target_date, aforce, base_dates, base_data,
                   loaded_dates>>

NextAnalyze ==
    \/ \E t \in TargetInputs, f \in BOOLEAN : StartAnalysis(t, f)
    \/ \E exchange \in ExchangeBehaviours : LoadBaseline(exchange)
    \/ CheckBaseline
    \/ \E exchange \in ExchangeBehaviours : LoadTarget(exchange)

SpecAnalyze == InitAnalyze /\ [][NextAnalyze]_vars

(***************************************************************************)
(* Properties of the provider and the fetcher (specification Spec)         *)
(***************************************************************************)
\* The call reached fetch_volumes_from_api and that call has returned
FetchReturned == pc \in {"open", "dump"} \/ (pc = "returned" /\ attempt >= 1)

\* The rows of the pages that the running attempt has read, in request order
RECURSIVE PageRows(_, _)
PageRows(log, i) ==
    IF i = 0 THEN <<>>
    ELSE PageRows(log, i - 1)
         \o (IF log[i].n > 0 THEN [k \in 1..log[i].n |-> log[i].offset + k] ELSE <<>>)

\* The one-step account of the call used by analyze_date's model agrees with
\* the steps: what a finished call returned or raised, and the cache it left
ProvideMatchesSteps ==
    /\ (pc = "returned" /\ attempt >= 1)
          => [result |-> result, cache |-> cache]
                = Provide(cache_before, date, force, FetchGives(upstream))
    /\ (pc = "raised" \/ (pc = "returned" /\ attempt = 0))
          => [result |-> result, cache |-> cache]
                = Provide(cache_before, date, force, FetchFails)

\* C1: a call with force = False for a date whose snapshot is cached returns the
\* stored mapping, issues no request to the exchange and leaves every cache
\* entry as it was; the model repeats such calls without bound.
C1_CacheHitReturnsStored ==
    (pc = "returned" /\ ~force /\ EntryKind(cache_before, date) = "document")
        => /\ result = Returned(cache_before[date].tickers)
           /\ pages = <<>>
           /\ failed_attempts = 0
           /\ attempt = 0
           /\ cache = cache_before

C1_Witness ==
    /\ pc = "returned"
    /\ ~force
    /\ EntryKind(cache_before, date) = "document"
    /\ cache_before[date].tickers # <<>>
    /\ \E d \in ProviderDates : d # date /\ EntryKind(cache, d) = "document"

\* C2: the cache changes only after the fetch has returned; while the fetch runs,
\* and when it has failed for good, the cache is exactly as before the call, so
\* an absent entry stays absent and a forced call keeps the old entry.
C2_FailedFetchLeavesCache ==
    /\ pc \in {"request", "cooldown", "raised"} => cache = cache_before
    /\ (pc = "raised" /\ attempt >= 1) => result = Raised("FetchExhausted")

C2_Witness ==
    /\ pc = "raised"
    /\ result = Raised("FetchExhausted")
    /\ force
    /\ EntryKind(cache_before, date) = "document"
    /\ cache[date] = cache_before[date]

\* C3: one call makes at most MAX_RETRIES attempts; the fetch returns from the
\* first attempt whose page loop completes, after which no request is issued;
\* it raises exactly when MAX_RETRIES attempts have failed; it sleeps RETRY_DELAY
\* after each failed attempt but the last.
C3_State ==
    /\ attempt <= MAX_RETRIES
    /\ failed_attempts <= MAX_RETRIES
    /\ FetchReturned => failed_attempts = attempt - 1
    /\ pc \in {"request", "cooldown"} => failed_attempts < MAX_RETRIES
    /\ (pc = "raised" /\ attempt >= 1) <=> failed_attempts = MAX_RETRIES
    /\ cooldowns = (CASE pc = "cooldown" -> failed_attempts - 1
                      [] failed_attempts = MAX_RETRIES -> MAX_RETRIES - 1
                      [] OTHER -> failed_attempts)

C3_Step ==
    (FetchReturned \/ pc = "raised")
        => \/ pages' = pages /\ failed_attempts' = failed_attempts /\ cooldowns' = cooldowns
           \/ pc' = "idle"

C3_BoundedRetry == [](C3_State) /\ [][C3_Step]_vars

C3_Witness ==
    /\ pc = "raised"
    /\ failed_attempts = MAX_RETRIES
    /\ cooldowns = MAX_RETRIES - 1

\* C4: every attempt starts at offset 0 with an empty accumulator, and the
\* accumulator always holds exactly the rows of the pages read by the running
\* attempt, in order; so what a successful fetch aggregates is the exchange's
\* list once, whatever earlier attempts had collected.
C4_RetryRestartsFromScratch ==
    /\ pc \in {"request", "cooldown", "open", "dump"} => all_data = PageRows(pages, Len(pages))
    /\ (pc = "request" /\ pages = <<>>) => (start = 0 /\ all_data = <<>>)
    /\ FetchReturned => /\ all_data = [k \in 1..upstream |-> k]
                        /\ data = aggregate_ticker_data(RowsOf(date, all_data))

C4_Witness ==
    /\ pc = "open"
    /\ discarded >= PAGE_SIZE
    /\ Len(all_data) > PAGE_SIZE

\* C5 as stated: the pages are requested at offsets 0, 100, 200, ... and no
\* request follows a page shorter than the page size.
C5_StopsAfterShortPage ==
    /\ \A i \in 1..Len(pages) : pages[i].offset = (i - 1) * PAGE_SIZE
    /\ \A i \in 1..(Len(pages) - 1) : pages[i].n = PAGE_SIZE

\* C5 as amended: the pages are requested at offsets 0, 100, 200, ...; the
\* attempt's requests stop at the first page with zero rows, and every page
\* before the last request is non-empty, full or not.  A short non-empty page is
\* followed by one more request, issued without the inter-page pause.
C5_StopsAfterEmptyPage ==
    /\ \A i \in 1..Len(pages) : pages[i].offset = (i - 1) * PAGE_SIZE
    /\ \A i \in 1..(Len(pages) - 1) : pages[i].n >= 1
    /\ pc \in {"request", "cooldown", "open", "dump"}
          => pauses = Cardinality({i \in 1..Len(pages) : pages[i].n = PAGE_SIZE})
    /\ (pc = "request" /\ pages # <<>>) => pages[Len(pages)].n >= 1
    /\ pc \in {"open", "dump"}
          => /\ pages[Len(pages)].n = 0
             /\ Len(pages) = ((upstream + PAGE_SIZE - 1) \div PAGE_SIZE) + 1

C5_Witness ==
    /\ pc = "open"
    /\ Len(pages) = 3
    /\ pages[2].n = 1
    /\ pages[3].n = 0

\* C8 as stated: between calls, every cache entry that exists holds a complete
\* snapshot, whatever interrupted the call that wrote it.
C8_AtomicPersistence ==
    pc = "idle" => \A d \in AllDates : EntryKind(cache, d) \in {"absent", "document"}

(***************************************************************************)
(* aggregate_ticker_data on arbitrary row lists (specification             *)
(* SpecAggregate)                                                          *)
(***************************************************************************)
MaxRawRows == 3

RawRowChoices ==
    {<<secid, shortname, nums[1], nums[2], nums[3]>> :
        secid \in {SBER, RU000A, RU00},
        shortname \in {NameSb, NameSbx},
        nums \in {<<1, 2, 3>>, <<None, None, None>>, <<4, 0, None>>}}

RawRowLists == UNION {[1..n -> RawRowChoices] : n \in 0..MaxRawRows}

InitAggregate ==
    /\ cache = NoFiles
    /\ InitProviderIdle
    /\ InitAnalysisIdle
    /\ raw_data \in RawRowLists
    /\ aggregated = NoResult

\* aggregated = aggregate_ticker_data(raw_data)
Aggregate ==
    /\ aggregated = NoResult
    /\ aggregated' = Returned(aggregate_ticker_data(raw_data))
    /\ UNCHANGED <<cache, providerVars, analysisVars, raw_data>>

NextAggregate == Aggregate

SpecAggregate == InitAggregate /\ [][NextAggregate]_vars

\* An identifier that begins with the letters R, U, 0, 0, 0
HasExcludedPrefix(secid) ==
    /\ Len(secid) >= 5
    /\ secid[1] = "R" /\ secid[2] = "U" /\ secid[3] = "0" /\ secid[4] = "0" /\ secid[5] = "0"

\* The sum of field f over the rows of `rows` whose identifier is secid, null as 0
RECURSIVE FieldSum(_, _, _, _)
FieldSum(rows, secid, f, i) ==
    IF i = 0 THEN 0
    ELSE FieldSum(rows, secid, f, i - 1)
         + (IF rows[i][1] = secid /\ rows[i][f] # None THEN rows[i][f] ELSE 0)

FirstRowOf(rows, secid) ==
    CHOOSE i \in 1..Len(rows) : rows[i][1] = secid /\ \A j \in 1..(i - 1) : rows[j][1] # secid

\* C9: the result has exactly one record for each identifier that occurs in a
\* row and has no excluded prefix, and none for any other identifier; a record's
\* volume, value and trade count are the sums over the identifier's rows with
\* null counted as 0, and its display name is that of the identifier's first row.
C9_AggregateSums ==
    aggregated.kind = "returned" =>
        LET agg == aggregated.value IN
        /\ \A i, j \in 1..Len(agg) : agg[i][1] = agg[j][1] => i = j
        /\ Keys(agg) = {raw_data[i][1] : i \in {k \in 1..Len(raw_data) :
                                                  ~HasExcludedPrefix(raw_data[k][1])}}
        /\ \A i \in 1..Len(agg) :
              LET secid == agg[i][1]
                  rec == agg[i][2]
              IN  /\ rec.volume = FieldSum(raw_data, secid, 3, Len(raw_data))
                  /\ rec.value = FieldSum(raw_data, secid, 4, Len(raw_data))
                  /\ rec.numtrades = FieldSum(raw_data, secid, 5, Len(raw_data))
                  /\ rec.shortname = raw_data[FirstRowOf(raw_data, secid)][2]

C9_Witness ==
    /\ aggregated.kind = "returned"
    /\ Len(raw_data) = 3
    /\ raw_data[1][1] = SBER /\ raw_data[2][1] = SBER
    /\ raw_data[1][2] # raw_data[2][2]
    /\ raw_data[2][4] = None /\ raw_data[1][4] = 2
    /\ raw_data[3][1] = RU000A
    /\ Len(aggregated.value) = 1

(***************************************************************************)
(* Properties of analyze_date (specification SpecAnalyze)                  *)
(***************************************************************************)
BaselineOver == apc \in {"no_baseline", "target", "target_failed", "no_target_data", "done"}

PositionIn(dates, d) == CHOOSE i \in 1..Len(dates) : dates[i] = d

\* C6: the run aborts for lack of baseline data exactly when all five baseline
\* loads failed, having called the loader for the five baseline dates only and
\* computed nothing; otherwise it goes on with exactly the snapshots of the
\* baseline dates that loaded, in window order.
C6_BaselineFailure ==
    /\ BaselineOver =>
          /\ Len(base_dates) = BASE_DAYS
          /\ SubSeq(load_calls, 1, BASE_DAYS) = base_dates
          /\ apc = "no_baseline" <=> loaded_dates = <<>>
          /\ Len(base_data) = Len(loaded_dates)
          /\ \A i \in 1..Len(loaded_dates) :
                /\ \E k \in 1..BASE_DAYS : base_dates[k] = loaded_dates[i]
                /\ \A j \in 1..(i - 1) : PositionIn(base_dates, loaded_dates[j])
                                            < PositionIn(base_dates, loaded_dates[i])
                /\ EntryKind(cache, loaded_dates[i]) = "document"
                /\ base_data[i] = cache[loaded_dates[i]].tickers
    /\ apc = "no_baseline" =>
          /\ exit_code = 1
          /\ load_calls = base_dates
          /\ target_data = NoSnapshot /\ stats = <<>> /\ warnings = <<>> /\ anomalies = <<>>
          /\ reports = NoFiles
    /\ apc = "done" => stats = calculate_statistics(base_data, target_data).stats

C6_Witness ==
    /\ apc = "no_baseline"
    /\ load_calls = base_dates
    /\ Len(base_dates) = BASE_DAYS
    /\ \E d \in DOMAIN cache : cache[d].kind = "document"

\* C7: a report exists only for a run whose target load returned at least one
\* instrument; a failed target load ends the run with exit status 1 and no
\* report, an empty target snapshot with exit status 0, no statistics and no
\* report; a written report counts at least one instrument.
C7_ReportNeedsTargetData ==
    /\ \A d \in DOMAIN reports :
          /\ apc = "done" /\ d = target_date
          /\ reports[d].metadata.total_tickers = Len(target_data)
          /\ reports[d].metadata.total_tickers >= 1
    /\ apc = "done" => target_date \in DOMAIN reports /\ exit_code = 0
    /\ apc = "target_failed" => exit_code = 1 /\ reports = NoFiles /\ stats = <<>>
    /\ apc = "no_target_data" =>
          /\ exit_code = 0
          /\ target_data = <<>>
          /\ stats = <<>> /\ warnings = <<>> /\ anomalies = <<>>
          /\ reports = NoFiles
    /\ apc \in {"target_failed", "no_target_data", "done"}
          => load_calls = Append(base_dates, target_date)

C7_Witness ==
    /\ apc = "no_target_data"
    /\ exit_code = 0
    /\ Len(loaded_dates) \in 1..(BASE_DAYS - 1)
    /\ reports = NoFiles

(***************************************************************************)
(* calculate_statistics on arbitrary snapshots (specification              *)
(* SpecStatistics)                                                         *)
(***************************************************************************)
MaxBaseDays == 3

FXTF == <<"F", "X", "T", "F">>
GAZP == <<"G", "A", "Z", "P">>

Record(shortname, value) ==
    [shortname |-> shortname, volume |-> 1, value |-> value, numtrades |-> 1]

SnapshotChoices ==
    { <<>>,
      << <<SBER, Record(NameSb, 2)>> >>,
      << <<RU00, Record(NameEt, 0)>>, <<SBER, Record(NameSb, 4)>> >>,
      << <<RU000A, Record(NameSb, 3)>>, <<FXTF, Record(NameEtf, 5)>> >>,
      << <<SBER, Record(NameSbx, 9)>>, <<FXTF, Record(NameEtf, 1)>>,
         <<RU00, Record(NameEt, 7)>>, <<RU000A, Record(NameSb, 1)>> >>,
      << <<RU00, Record(NameEt, 0)>> >>,
      << <<GAZP, Record(NameSb, 6)>>, <<RU00, Record(NameEt, 2)>> >> }

BaselineChoices == UNION {[1..n -> SnapshotChoices] : n \in 0..MaxBaseDays}

InitStatistics ==
    /\ cache = NoFiles
    /\ InitProviderIdle
    /\ InitAggregateIdle
    /\ apc = "idle"
    /\ target_date = FirstTarget
    /\ aforce = FALSE
    /\ base_dates = <<>>
    /\ base_data \in BaselineChoices
    /\ load_calls = <<>>
    /\ loaded_dates = <<>>
    /\ target_data \in SnapshotChoices
    /\ stats = <<>>
    /\ warnings = <<>>
    /\ anomalies = <<>>
    /\ exit_code = None
    /\ reports = NoFiles

\* stats, warnings = calculate_statistics(base_data, target_data)
Calculate ==
    /\ apc = "idle"
    /\ LET computed == calculate_statistics(base_data, target_data) IN
       /\ stats' = computed.stats
       /\ warnings' = computed.warnings
    /\ apc' = "calculated"
    /\ UNCHANGED <<cache, providerVars, aggregateVars, target_date, aforce, base_dates,
                   base_data, load_calls, loaded_dates, target_data, anomalies, exit_code,
                   reports>>

NextStatistics == Calculate

SpecStatistics == InitStatistics /\ [][NextStatistics]_vars

\* The baseline snapshots that hold a record of the identifier
DaysWith(ticker) == {i \in 1..Len(base_data) : \E k \in 1..Len(base_data[i]) :
                                                  base_data[i][k][1] = ticker}

TargetTickers == {target_data[k][1] : k \in 1..Len(target_data)}

\* C10: every scored identifier is in the target snapshot and in at least one
\* baseline snapshot, is scored once, and its base_days_count is the number of
\* baseline snapshots holding it, between 1 and the number passed in; an
\* identifier without baseline values is in neither the statistics nor a
\* warning, and one that is only in the baseline is not scored.
C10_ScoredIdentifiers ==
    apc = "calculated" =>
        /\ \A i \in 1..Len(stats) :
              LET ticker == stats[i][1] IN
              /\ ticker \in TargetTickers
              /\ DaysWith(ticker) # {}
              /\ stats[i][2].base_days_count = Cardinality(DaysWith(ticker))
              /\ stats[i][2].base_days_count \in 1..Len(base_data)
              /\ \A j \in 1..Len(stats) : stats[j][1] = ticker => j = i
        /\ \A i \in 1..Len(warnings) : DaysWith(warnings[i].ticker) # {}
        /\ \A ticker \in TargetTickers :
              DaysWith(ticker) = {} => \A i \in 1..Len(stats) : stats[i][1] # ticker

C10_Witness ==
    /\ apc = "calculated"
    /\ stats # <<>>
    /\ \E ticker \in TargetTickers :
          /\ DaysWith(ticker) = {}
          /\ ~HasExcludedPrefix(ticker)
          /\ ticker \notin {FXTF}
    /\ \E i \in 1..Len(base_data) : \E k \in 1..Len(base_data[i]) :
          base_data[i][k][1] \notin TargetTickers /\ base_data[i][k][1] = SBER

\* The value the identifier has in baseline snapshot d
BaselineValueOn(ticker, d) ==
    LET k == CHOOSE k \in 1..Len(base_data[d]) : base_data[d][k][1] = ticker
    IN  base_data[d][k][2].value

\* The only baseline value of an identifier that has exactly one
OnlyBaselineValue(ticker) ==
    BaselineValueOn(ticker, CHOOSE d \in DaysWith(ticker) : TRUE)

WarningsNaming(ticker) == {i \in 1..Len(warnings) : warnings[i].ticker = ticker}

\* C11: a scored identifier with exactly one baseline value v has standard
\* deviation v / 100 when v > 0 and 1 when v = 0, a z-score equal to
\* (current - v) divided by that standard deviation, and exactly one warning
\* naming it; a scored identifier with two or more baseline values has no
\* warning.
C11_SingleValueSpread ==
    apc = "calculated" =>
        \A i \in 1..Len(stats) :
            LET ticker == stats[i][1]
                info == stats[i][2]
                current == info.current_value
            IN  IF Cardinality(DaysWith(ticker)) = 1
                THEN LET v == OnlyBaselineValue(ticker) IN
                     /\ info.std_value.kind = "rational"
                     /\ info.z_score.kind = "rational"
                     /\ info.std_value.den > 0
                     /\ info.z_score.den > 0
                     /\ IF v > 0
                        THEN /\ 100 * info.std_value.num = v * info.std_value.den
                             /\ info.z_score.num * v = 100 * (current - v) * info.z_score.den
                        ELSE /\ info.std_value.num = info.std_value.den
                             /\ info.z_score.num = (current - v) * info.z_score.den
                     /\ Cardinality(WarningsNaming(ticker)) = 1
                ELSE WarningsNaming(ticker) = {}

C11_Witness ==
    /\ apc = "calculated"
    /\ \E i, j \in 1..Len(stats) :
          /\ Cardinality(DaysWith(stats[i][1])) = 1
          /\ OnlyBaselineValue(stats[i][1]) > 0
          /\ stats[i][2].current_value # OnlyBaselineValue(stats[i][1])
          /\ Cardinality(DaysWith(stats[j][1])) = 1
          /\ OnlyBaselineValue(stats[j][1]) = 0
          /\ stats[j][2].current_value > 0
    /\ Len(warnings) = 2

(***************************************************************************)
(* calculate_statistics followed by find_anomalies, as analyze_date calls  *)
(* them, on instruments whose values are of the size of MIN_AVG_VALUE      *)
(* (specification SpecSelect).  An instrument is drawn as a profile: its   *)
(* values on the first baseline days and its value on the target date.     *)
(***************************************************************************)
MaxScored == 3

LKOH == <<"L", "K", "O", "H">>
TickerPool == <<SBER, GAZP, RU00, LKOH>>

Profile(base, target) == [base |-> base, target |-> target]

ProfileChoices ==
    { \* equal baseline values: no spread
      Profile(<<MIN_AVG_VALUE, MIN_AVG_VALUE>>, 5 * MIN_AVG_VALUE),
      \* all three tests pass
      Profile(<<MIN_AVG_VALUE, 2 * MIN_AVG_VALUE>>, 10 * MIN_AVG_VALUE),
      Profile(<<MIN_AVG_VALUE, 3 * MIN_AVG_VALUE>>, 10 * MIN_AVG_VALUE),
      \* one baseline value, mean exactly MIN_AVG_VALUE, deviation 400 and 300
      Profile(<<MIN_AVG_VALUE>>, 5 * MIN_AVG_VALUE),
      Profile(<<MIN_AVG_VALUE>>, 4 * MIN_AVG_VALUE),
      \* only the mean is too small
      Profile(<<MIN_AVG_VALUE \div 2, 0>>, 10 * MIN_AVG_VALUE),
      \* only the deviation is too small
      Profile(<<4 * MIN_AVG_VALUE, 4 * MIN_AVG_VALUE, 5 * MIN_AVG_VALUE>>, 10 * MIN_AVG_VALUE),
      \* only the z-score is too small
      Profile(<<0, 4 * MIN_AVG_VALUE>>, 10 * MIN_AVG_VALUE),
      \* the value fell
      Profile(<<2 * MIN_AVG_VALUE, 3 * MIN_AVG_VALUE>>, 0) }

RECURSIVE LongestBase(_, _)
LongestBase(profiles, k) ==
    IF k = 0 THEN 0
    ELSE LET before == LongestBase(profiles, k - 1)
             here == Len(profiles[k].base)
         IN  IF here > before THEN here ELSE before

\* The snapshot of baseline day i: the instruments that have a value on it
RECURSIVE BaselineDay(_, _, _)
BaselineDay(profiles, i, k) ==
    IF k = 0 THEN <<>>
    ELSE IF i <= Len(profiles[k].base)
         THEN Append(BaselineDay(profiles, i, k - 1),
                     <<TickerPool[k], Record(NameSb, profiles[k].base[i])>>)
         ELSE BaselineDay(profiles, i, k - 1)

BaselineOf(profiles) ==
    [i \in 1..LongestBase(profiles, Len(profiles)) |->
        BaselineDay(profiles, i, Len(profiles))]

TargetOf(profiles) ==
    [k \in 1..Len(profiles) |-> <<TickerPool[k], Record(NameSb, profiles[k].target)>>]

InitSelect ==
    /\ cache = NoFiles
    /\ InitProviderIdle
    /\ InitAggregateIdle
    /\ apc = "idle"
    /\ target_date = FirstTarget
    /\ aforce = FALSE
    /\ base_dates = <<>>
    /\ \E n \in 0..MaxScored : \E profiles \in [1..n -> ProfileChoices] :
          /\ base_data = BaselineOf(profiles)
          /\ target_data = TargetOf(profiles)
    /\ load_calls = <<>>
    /\ loaded_dates = <<>>
    /\ stats = <<>>
    /\ warnings = <<>>
    /\ anomalies = <<>>
    /\ exit_code = None
    /\ reports = NoFiles

\* anomalies = find_anomalies(stats, ANOMALY_THRESHOLD_SIGMA)
Select ==
    /\ apc = "calculated"
    /\ anomalies' = find_anomalies(stats, ANOMALY_THRESHOLD_SIGMA)
    /\ apc' = "selected"
    /\ UNCHANGED <<cache, providerVars, aggregateVars, target_date, aforce, base_dates,
                   base_data, load_calls, loaded_dates, target_data, stats, warnings,
                   exit_code, reports>>

NextSelect ==
    \/ Calculate
    \/ Select

SpecSelect == InitSelect /\ [][NextSelect]_vars

\* The baseline values of the identifier are all the same
AllEqual(ticker) ==
    \A d, e \in DaysWith(ticker) : BaselineValueOn(ticker, d) = BaselineValueOn(ticker, e)

Occurrences(ticker) == {k \in 1..Len(anomalies) : anomalies[k][1] = ticker}

ZScoreTest(info) == GreaterThanInt(info.z_score, ANOMALY_THRESHOLD_SIGMA)
DeviationTest(info) == GreaterThanInt(info.deviation_pct, MIN_DEVIATION_PERCENT)
MeanTest(info) == AtLeastInt(info.mean_value, MIN_AVG_VALUE)

\* C12: a scored identifier whose two or more baseline values are all equal
\* has standard deviation 0 and z-score 0, and find_anomalies with the
\* threshold of 3 does not return it, whatever its deviation and mean are.
C12_ZeroSpreadGuard ==
    apc \in {"calculated", "selected"} =>
        \A i \in 1..Len(stats) :
            LET ticker == stats[i][1]
                info == stats[i][2]
            IN  (Cardinality(DaysWith(ticker)) >= 2 /\ AllEqual(ticker)) =>
                    /\ SignOf(info.std_value) = 0
                    /\ info.z_score.kind = "rational"
                    /\ info.z_score.num = 0
                    /\ info.z_score.den > 0
                    /\ apc = "selected" => Occurrences(ticker) = {}

C12_Witness ==
    /\ apc = "selected"
    /\ anomalies # <<>>
    /\ \E i \in 1..Len(stats) :
          /\ Cardinality(DaysWith(stats[i][1])) >= 2
          /\ AllEqual(stats[i][1])
          /\ DeviationTest(stats[i][2])
          /\ MeanTest(stats[i][2])
          /\ Occurrences(stats[i][1]) = {}

\* C13: find_anomalies returns an instrument, once and with its statistics,
\* exactly when its z-score is above the threshold, its deviation is above
\* MIN_DEVIATION_PERCENT and its mean is at least MIN_AVG_VALUE; it returns
\* nothing else.
C13_ThreeTests ==
    apc = "selected" =>
        /\ \A i \in 1..Len(stats) :
              LET ticker == stats[i][1]
                  info == stats[i][2]
              IN  IF ZScoreTest(info) /\ DeviationTest(info) /\ MeanTest(info)
                  THEN /\ Cardinality(Occurrences(ticker)) = 1
                       /\ \A k \in Occurrences(ticker) : anomalies[k] = stats[i]
                  ELSE Occurrences(ticker) = {}
        /\ \A k \in 1..Len(anomalies) : \E i \in 1..Len(stats) : stats[i] = anomalies[k]

C13_Witness ==
    /\ apc = "selected"
    /\ Len(anomalies) = 1
    /\ \E i, j \in 1..Len(stats) :
          /\ ZScoreTest(stats[i][2]) /\ DeviationTest(stats[i][2]) /\ ~MeanTest(stats[i][2])
          /\ ~ZScoreTest(stats[j][2]) /\ DeviationTest(stats[j][2]) /\ MeanTest(stats[j][2])

Identifiers(found) == [k \in 1..Len(found) |-> found[k][1]]

\* C14: find_anomalies returns the same sequence of identifiers for a
\* statistics mapping and for the same mapping with its entries in reverse
\* order, also when two selected instruments have equal z-scores.
C14_OrderIndependent ==
    apc = "selected" =>
        Identifiers(find_anomalies(Reversed(stats), ANOMALY_THRESHOLD_SIGMA))
            = Identifiers(anomalies)

\* What holds of the order: z-scores never increase along the result, and
\* instruments of equal z-score keep the order they have in the mapping
SortedStable ==
    apc = "selected" =>
        \A k, l \in 1..Len(anomalies) :
            k < l =>
                /\ ~Greater(anomalies[l][2].z_score, anomalies[k][2].z_score)
                /\ ~Greater(anomalies[k][2].z_score, anomalies[l][2].z_score)
                       => \E i, j \in 1..Len(stats) :
                              i < j /\ stats[i] = anomalies[k] /\ stats[j] = anomalies[l]

\* The days of the baseline window, as day numbers
WindowDays == [i \in 1..Len(base_dates) |-> strptime(base_dates[i])]

\* C15: once analyze_date has built the baseline window of a target date, the
\* window holds 5 dates, all Monday to Friday, strictly ascending, all before
\* the target date; every day between the last one and the target date is a
\* Saturday or a Sunday, and every weekday between the first and the last is
\* in the window.
C15_BaselineWindow ==
    apc \notin {"idle", "bad_date"} =>
        /\ Len(base_dates) = 5
        /\ \A i \in 1..Len(base_dates) :
              /\ ValidDateString(base_dates[i])
              /\ weekday(WindowDays[i]) \in 0..4
              /\ WindowDays[i] < strptime(target_date)
              /\ i > 1 => WindowDays[i - 1] < WindowDays[i]
        /\ \A day \in (WindowDays[Len(base_dates)] + 1)..(strptime(target_date) - 1) :
              weekday(day) \in {5, 6}
        /\ \A day \in WindowDays[1]..WindowDays[Len(base_dates)] :
              weekday(day) \in 0..4 => \E i \in 1..Len(base_dates) : WindowDays[i] = day

C15_Witness ==
    /\ apc = "baseline"
    /\ weekday(strptime(target_date)) = 0
    /\ Len(base_dates) = 5
    /\ strptime(target_date) - WindowDays[5] = 3
    /\ WindowDays[5] - WindowDays[1] = 4

\* C16: a call of fetch_volumes_from_api that has started returns or raises the
\* permanent failure; the page loop of every attempt ends; and one attempt
\* makes at most one request per page the exchange holds, plus the request
\* that finds the empty page.
C16_FetchTerminates ==
    /\ (pc \in {"request", "cooldown"}) ~> (FetchReturned \/ pc = "raised")
    /\ \A a \in 1..MAX_RETRIES :
          (pc = "request" /\ attempt = a) ~> ~(pc = "request" /\ attempt = a)
    /\ [](Len(pages) <= upstream \div 100 + 2)

C16_Witness ==
    /\ pc = "open"
    /\ failed_attempts = 4
    /\ discarded > 0
    /\ Len(pages) >= 2
    /\ pauses >= 1

====
